---- MODULE Spec2Model ----
(***************************************************************************)
(* kt::result : a value holding either a result (T) or an error (E).       *)
(*                                                                         *)
(* result.hpp defines four shapes over detail::result_storage_t:           *)
(*   general       result<T, E>     std::variant<T, E>                     *)
(*   homogeneous   result<T, T>     std::optional<T> plus bool m_error     *)
(*   optional      result<T, void>  std::optional<T>                       *)
(*   boolean       result<bool>     a bare bool                            *)
(* and the second header defines the dispatch-policy variant               *)
(*   dispatch      result<T, RD>    std::optional<T>, RD::err, RD::sig     *)
(*                                                                         *)
(* One behaviour of the model is one program working on one instance of    *)
(* one shape.  T and E are modelled as 0..MaxVal (T{} = E{} = 0); in the   *)
(* boolean shape T is BOOLEAN.  assert() is modelled as compiled in: a     *)
(* failed assertion ends the run.  An exception leaves the instance as it  *)
(* was and the run goes on.                                                *)
(***************************************************************************)
EXTENDS Integers, Sequences, FiniteSets, TLC

MaxVal == 2

Values == 0..MaxVal
DefaultT == 0
DefaultE == 0
\* no value: outside T and E
Nil == DefaultT - 1

Shapes == {"general", "homogeneous", "optional", "boolean", "dispatch"}

\* enum class result_signal { ok, error } and result_dispatch<Err, result_signal>
result_signal == {"ok", "error"}
RD_success == "ok"
RD_failure == "error"

VARIABLES shape, m_storage, m_error, storage, last, pc
vars == <<shape, m_storage, m_error, storage, last, pc>>

\* what a call did: returned v, failed an assertion, threw, or has no return
Ret(v) == [out |-> "ret", v |-> v]
AssertFail == [out |-> "assert", v |-> Nil]
Throw == [out |-> "throw", v |-> Nil]
NoRet == [out |-> "none", v |-> Nil]
IllFormed == [out |-> "ill_formed", v |-> Nil]
Crash == [out |-> "crash", v |-> Nil]
Fatal == {"assert", "ill_formed", "crash"}

Call(op, arg, res) == [op |-> op, arg |-> arg, out |-> res.out, ret |-> res.v]

(***************************************************************************)
(* detail::result_storage_t<T, E> : std::variant<T, E> val                 *)
(***************************************************************************)
StorageTE_default == [alt |-> "E", v |-> DefaultE]
StorageTE_fromT(t) == [alt |-> "T", v |-> t]
\* mutant: the error lands in the result alternative
StorageTE_fromE_Mut(e) == [alt |-> "T", v |-> e]
StorageTE_fromE(e) == [alt |-> "E", v |-> e]
StorageTE_has_value(s) == s.alt = "T"
StorageTE_value(s) == IF StorageTE_has_value(s) THEN Ret(s.v) ELSE AssertFail
StorageTE_move(s) ==
    IF StorageTE_has_value(s)
    THEN [st |-> StorageTE_default, res |-> Ret(s.v)]
    ELSE [st |-> s, res |-> AssertFail]
\* mutant: error() without its assertion
StorageTE_error_Mut(s) == Ret(s.v)
StorageTE_error(s) == IF ~StorageTE_has_value(s) THEN Ret(s.v) ELSE AssertFail

(***************************************************************************)
(* detail::result_storage_t<T, void> : std::optional<T> val, modelled as   *)
(* a sequence of length 0 or 1                                             *)
(***************************************************************************)
StorageTV_default == <<>>
StorageTV_fromT(t) == <<t>>
StorageTV_has_value(s) == Len(s) > 0
StorageTV_value(s) == IF StorageTV_has_value(s) THEN Ret(s[1]) ELSE AssertFail
\* mutant: move() forgets val.reset()
StorageTV_move_Mut(s) ==
    IF Len(s) > 0
    THEN [st |-> s, res |-> Ret(s[1])]
    ELSE [st |-> s, res |-> AssertFail]
StorageTV_move(s) ==
    IF StorageTV_has_value(s)
    THEN [st |-> <<>>, res |-> Ret(s[1])]
    ELSE [st |-> s, res |-> AssertFail]

(***************************************************************************)
(* detail::result_storage_t<bool, void> : bool val                         *)
(***************************************************************************)
\* mutant: the flag starts true
StorageBV_default_Mut == TRUE
StorageBV_default == FALSE
StorageBV_fromT(b) == b
\* mutant: has_value() as if a value were always held
StorageBV_has_value_Mut(s) == TRUE
StorageBV_has_value(s) == s
StorageBV_value(s) == Ret(s)
StorageBV_move(s) == [st |-> FALSE, res |-> Ret(s)]

(***************************************************************************)
(* result<T, E> : the general shape, over result_storage_t<T, E>           *)
(***************************************************************************)
ResultTE_has_result(s) == StorageTE_has_value(s)
ResultTE_has_error(s) == ~ResultTE_has_result(s)
ResultTE_get_result(s) == StorageTE_value(s)
ResultTE_value_or(s, fallback) ==
    IF ResultTE_has_result(s) THEN ResultTE_get_result(s) ELSE Ret(fallback)
ResultTE_error(s) == StorageTE_error(s)
ResultTE_move(s) == StorageTE_move(s)

(***************************************************************************)
(* result<T, void> : the optional shape, over result_storage_t<T, void>;   *)
(* with T = bool the storage is the specialisation result_storage_t<bool,  *)
(* void>                                                                   *)
(***************************************************************************)
TypeTV(sh) == IF sh = "boolean" THEN BOOLEAN ELSE Values
StorageV_default(sh) == IF sh = "boolean" THEN StorageBV_default ELSE StorageTV_default
StorageV_fromT(sh, t) == IF sh = "boolean" THEN StorageBV_fromT(t) ELSE StorageTV_fromT(t)
StorageV_has_value(sh, s) ==
    IF sh = "boolean" THEN StorageBV_has_value(s) ELSE StorageTV_has_value(s)
StorageV_value(sh, s) == IF sh = "boolean" THEN StorageBV_value(s) ELSE StorageTV_value(s)
StorageV_move(sh, s) == IF sh = "boolean" THEN StorageBV_move(s) ELSE StorageTV_move(s)

ResultTV_has_result(sh, s) == StorageV_has_value(sh, s)
ResultTV_has_error(sh, s) == ~ResultTV_has_result(sh, s)
ResultTV_get_result(sh, s) == StorageV_value(sh, s)
ResultTV_value_or(sh, s, fallback) ==
    IF ResultTV_has_result(sh, s) THEN ResultTV_get_result(sh, s) ELSE Ret(fallback)
ResultTV_move(sh, s) == StorageV_move(sh, s)

(***************************************************************************)
(* result<T, T> : the homogeneous shape, result_storage_t<T, void> plus    *)
(* the discriminant m_error.  The state is [st, err].                      *)
(***************************************************************************)
ResultTT_default == [st |-> StorageTV_fromT(DefaultT), err |-> TRUE]
ResultTT_set_result(r, t) == [st |-> StorageTV_fromT(t), err |-> FALSE]
\* mutant: set_error forgets the discriminant
ResultTT_set_error_Mut(r, e) == [st |-> <<e>>, err |-> r.err]
ResultTT_set_error(r, e) == [st |-> StorageTV_fromT(e), err |-> TRUE]
ResultTT_has_result(r) == ~r.err
ResultTT_has_error(r) == ~ResultTT_has_result(r)
ResultTT_get_result(r) == IF ~r.err THEN StorageTV_value(r.st) ELSE AssertFail
ResultTT_value_or(r, fallback) ==
    IF ResultTT_has_result(r) THEN ResultTT_get_result(r) ELSE Ret(fallback)
ResultTT_error(r) == IF r.err THEN StorageTV_value(r.st) ELSE AssertFail
\* move(): assert(!m_error); T ret = m_storage.move(); error(err_t{}); return ret;
\* The third statement names the accessor error(), which takes no argument:
\* the statement is ill-formed, no set_error(err_t{}) is ever executed and no
\* value is returned.  The storage has been emptied and m_error is unchanged.
ResultTT_move(r) ==
    IF r.err
    THEN [st |-> r, res |-> AssertFail]
    ELSE LET m == StorageTV_move(r.st)
         IN  IF m.res.out = "ret"
             THEN [st |-> [st |-> m.st, err |-> r.err], res |-> IllFormed]
             ELSE [st |-> r, res |-> m.res]

(***************************************************************************)
(* result<T, RD> : the dispatch-policy variant.  storage holds             *)
(* std::optional<T> data, RD::err error and RD::sig signal.                *)
(***************************************************************************)
ResultRD_default == [data |-> <<>>, error |-> DefaultE, signal |-> RD_failure]
\* result(sig signal, Args&&... args): args is <<>> or <<e>>
ResultRD_fromSignal(signal, args) ==
    [ResultRD_default EXCEPT !.error = IF Len(args) > 0 THEN args[1] ELSE @,
                             !.signal = signal]
\* result(Args&&... args), at least one argument
ResultRD_fromArgs(args) == ResultRD_fromSignal(RD_failure, args)
\* result(T&& value), result(T& value)
ResultRD_fromT(value) == [ResultRD_default EXCEPT !.data = <<value>>, !.signal = RD_success]
ResultRD_bool(s) == s.signal = RD_success
\* *storage.data : dereferencing an empty std::optional is undefined, the
\* build may yield any T or crash
OptionalDeref(data) ==
    IF Len(data) > 0 THEN {Ret(data[1])} ELSE {Ret(x) : x \in Values} \cup {Crash}
ResultRD_deref(s) == IF s.signal = RD_success THEN OptionalDeref(s.data) ELSE {Throw}
ResultRD_move(s) ==
    IF s.signal = RD_success
    THEN {[st |-> [s EXCEPT !.signal = RD_failure], res |-> o] : o \in OptionalDeref(s.data)}
    ELSE {[st |-> s, res |-> Throw]}
ResultRD_arrow(s) == IF s.signal = RD_success THEN OptionalDeref(s.data) ELSE {Throw}
ResultRD_value_or(s, fallback) ==
    IF s.signal = RD_success THEN OptionalDeref(s.data) ELSE {Ret(fallback)}
ResultRD_error(s) ==
    LET b_error == s.signal # RD_success
    IN  Ret(IF b_error THEN s.error ELSE DefaultE)

(***************************************************************************)
(* The program: one instance of one shape, default-constructed, then any   *)
(* sequence of (re)constructions and member calls.                         *)
(***************************************************************************)
Unused == Nil

Init ==
    /\ shape \in Shapes
    /\ m_storage = CASE shape = "general" -> StorageTE_default
                     [] shape = "homogeneous" -> ResultTT_default.st
                     [] shape \in {"optional", "boolean"} -> StorageV_default(shape)
                     [] OTHER -> Unused
    /\ m_error = IF shape = "homogeneous" THEN ResultTT_default.err ELSE TRUE
    /\ storage = IF shape = "dispatch" THEN ResultRD_default ELSE Unused
    /\ last = Call("result()", Nil, NoRet)
    /\ pc = "run"

Do(op, arg, res) ==
    /\ last' = Call(op, arg, res)
    /\ pc' = IF res.out \in Fatal THEN "abort" ELSE "run"

\* ---- result<T, E> ----
TE_Default ==
    /\ pc = "run" /\ shape = "general"
    /\ m_storage' = StorageTE_default
    /\ Do("result()", Nil, NoRet)
    /\ UNCHANGED <<shape, m_error, storage>>

TE_Nullptr ==
    /\ pc = "run" /\ shape = "general"
    /\ m_storage' = StorageTE_default
    /\ Do("result(nullptr)", Nil, NoRet)
    /\ UNCHANGED <<shape, m_error, storage>>

TE_FromT ==
    /\ pc = "run" /\ shape = "general"
    /\ \E t \in Values :
          /\ m_storage' = StorageTE_fromT(t)
          /\ Do("result(T)", t, NoRet)
    /\ UNCHANGED <<shape, m_error, storage>>

TE_FromE ==
    /\ pc = "run" /\ shape = "general"
    /\ \E e \in Values :
          /\ m_storage' = StorageTE_fromE(e)
          /\ Do("result(E)", e, NoRet)
    /\ UNCHANGED <<shape, m_error, storage>>

TE_HasResult ==
    /\ pc = "run" /\ shape = "general"
    /\ Do("has_result", Nil, Ret(ResultTE_has_result(m_storage)))
    /\ UNCHANGED <<shape, m_storage, m_error, storage>>

TE_HasError ==
    /\ pc = "run" /\ shape = "general"
    /\ Do("has_error", Nil, Ret(ResultTE_has_error(m_storage)))
    /\ UNCHANGED <<shape, m_storage, m_error, storage>>

\* get_result(), operator*() and operator->() all go through get_result()
TE_GetResult ==
    /\ pc = "run" /\ shape = "general"
    /\ Do("get_result", Nil, ResultTE_get_result(m_storage))
    /\ UNCHANGED <<shape, m_storage, m_error, storage>>

TE_ValueOr ==
    /\ pc = "run" /\ shape = "general"
    /\ \E fallback \in Values :
          Do("value_or", fallback, ResultTE_value_or(m_storage, fallback))
    /\ UNCHANGED <<shape, m_storage, m_error, storage>>

TE_Error ==
    /\ pc = "run" /\ shape = "general"
    /\ Do("error", Nil, ResultTE_error(m_storage))
    /\ UNCHANGED <<shape, m_storage, m_error, storage>>

TE_Move ==
    /\ pc = "run" /\ shape = "general"
    /\ LET m == ResultTE_move(m_storage)
       IN  /\ m_storage' = m.st
           /\ Do("move", Nil, m.res)
    /\ UNCHANGED <<shape, m_error, storage>>

\* ---- result<T, void>, result<bool, void> ----
InTV == pc = "run" /\ shape \in {"optional", "boolean"}

TV_Default ==
    /\ InTV
    /\ m_storage' = StorageV_default(shape)
    /\ Do("result()", Nil, NoRet)
    /\ UNCHANGED <<shape, m_error, storage>>

TV_Nullptr ==
    /\ InTV
    /\ m_storage' = StorageV_default(shape)
    /\ Do("result(nullptr)", Nil, NoRet)
    /\ UNCHANGED <<shape, m_error, storage>>

TV_FromT ==
    /\ InTV
    /\ \E t \in TypeTV(shape) :
          /\ m_storage' = StorageV_fromT(shape, t)
          /\ Do("result(T)", t, NoRet)
    /\ UNCHANGED <<shape, m_error, storage>>

TV_HasResult ==
    /\ InTV
    /\ Do("has_result", Nil, Ret(ResultTV_has_result(shape, m_storage)))
    /\ UNCHANGED <<shape, m_storage, m_error, storage>>

TV_HasError ==
    /\ InTV
    /\ Do("has_error", Nil, Ret(ResultTV_has_error(shape, m_storage)))
    /\ UNCHANGED <<shape, m_storage, m_error, storage>>

TV_GetResult ==
    /\ InTV
    /\ Do("get_result", Nil, ResultTV_get_result(shape, m_storage))
    /\ UNCHANGED <<shape, m_storage, m_error, storage>>

TV_ValueOr ==
    /\ InTV
    /\ \E fallback \in TypeTV(shape) :
          Do("value_or", fallback, ResultTV_value_or(shape, m_storage, fallback))
    /\ UNCHANGED <<shape, m_storage, m_error, storage>>

TV_Move ==
    /\ InTV
    /\ LET m == ResultTV_move(shape, m_storage)
       IN  /\ m_storage' = m.st
           /\ Do("move", Nil, m.res)
    /\ UNCHANGED <<shape, m_error, storage>>

\* ---- result<T, T> ----
InTT == pc = "run" /\ shape = "homogeneous"
TT == [st |-> m_storage, err |-> m_error]
SetTT(r) == m_storage' = r.st /\ m_error' = r.err

TT_Default ==
    /\ InTT
    /\ SetTT(ResultTT_default)
    /\ Do("result()", Nil, NoRet)
    /\ UNCHANGED <<shape, storage>>

TT_Nullptr ==
    /\ InTT
    /\ SetTT(ResultTT_default)
    /\ Do("result(nullptr)", Nil, NoRet)
    /\ UNCHANGED <<shape, storage>>

TT_SetResult ==
    /\ InTT
    /\ \E t \in Values :
          /\ SetTT(ResultTT_set_result(TT, t))
          /\ Do("set_result", t, NoRet)
    /\ UNCHANGED <<shape, storage>>

TT_SetError ==
    /\ InTT
    /\ \E e \in Values :
          /\ SetTT(ResultTT_set_error(TT, e))
          /\ Do("set_error", e, NoRet)
    /\ UNCHANGED <<shape, storage>>

TT_HasResult ==
    /\ InTT
    /\ Do("has_result", Nil, Ret(ResultTT_has_result(TT)))
    /\ UNCHANGED <<shape, m_storage, m_error, storage>>

TT_HasError ==
    /\ InTT
    /\ Do("has_error", Nil, Ret(ResultTT_has_error(TT)))
    /\ UNCHANGED <<shape, m_storage, m_error, storage>>

TT_GetResult ==
    /\ InTT
    /\ Do("get_result", Nil, ResultTT_get_result(TT))
    /\ UNCHANGED <<shape, m_storage, m_error, storage>>

TT_ValueOr ==
    /\ InTT
    /\ \E fallback \in Values :
          Do("value_or", fallback, ResultTT_value_or(TT, fallback))
    /\ UNCHANGED <<shape, m_storage, m_error, storage>>

TT_Error ==
    /\ InTT
    /\ Do("error", Nil, ResultTT_error(TT))
    /\ UNCHANGED <<shape, m_storage, m_error, storage>>

TT_Move ==
    /\ InTT
    /\ LET m == ResultTT_move(TT)
       IN  /\ SetTT(m.st)
           /\ Do("move", Nil, m.res)
    /\ UNCHANGED <<shape, storage>>

\* ---- result<T, RD> ----
InRD == pc = "run" /\ shape = "dispatch"

RD_Default ==
    /\ InRD
    /\ storage' = ResultRD_default
    /\ Do("result()", Nil, NoRet)
    /\ UNCHANGED <<shape, m_storage, m_error>>

RD_FromArgs ==
    /\ InRD
    /\ \E e \in Values :
          /\ storage' = ResultRD_fromArgs(<<e>>)
          /\ Do("result(args)", <<e>>, NoRet)
    /\ UNCHANGED <<shape, m_storage, m_error>>

RD_FromT ==
    /\ InRD
    /\ \E value \in Values :
          /\ storage' = ResultRD_fromT(value)
          /\ Do("result(T)", value, NoRet)
    /\ UNCHANGED <<shape, m_storage, m_error>>

RD_FromSignal ==
    /\ InRD
    /\ \E signal \in result_signal, args \in {<<>>} \cup {<<e>> : e \in Values} :
          /\ storage' = ResultRD_fromSignal(signal, args)
          /\ Do("result(sig)", <<signal, args>>, NoRet)
    /\ UNCHANGED <<shape, m_storage, m_error>>

RD_Bool ==
    /\ InRD
    /\ Do("operator bool", Nil, Ret(ResultRD_bool(storage)))
    /\ UNCHANGED <<shape, m_storage, m_error, storage>>

RD_Deref ==
    /\ InRD
    /\ \E o \in ResultRD_deref(storage) : Do("operator*", Nil, o)
    /\ UNCHANGED <<shape, m_storage, m_error, storage>>

RD_Arrow ==
    /\ InRD
    /\ \E o \in ResultRD_arrow(storage) : Do("operator->", Nil, o)
    /\ UNCHANGED <<shape, m_storage, m_error, storage>>

RD_Move ==
    /\ InRD
    /\ \E m \in ResultRD_move(storage) :
          /\ storage' = m.st
          /\ Do("move", Nil, m.res)
    /\ UNCHANGED <<shape, m_storage, m_error>>

RD_ValueOr ==
    /\ InRD
    /\ \E fallback \in Values :
          \E o \in ResultRD_value_or(storage, fallback) : Do("value_or", fallback, o)
    /\ UNCHANGED <<shape, m_storage, m_error, storage>>

RD_Error ==
    /\ InRD
    /\ Do("error", Nil, ResultRD_error(storage))
    /\ UNCHANGED <<shape, m_storage, m_error, storage>>

Next ==
    \/ TE_Default \/ TE_Nullptr \/ TE_FromT \/ TE_FromE \/ TE_HasResult
    \/ TE_HasError \/ TE_GetResult \/ TE_ValueOr \/ TE_Error \/ TE_Move
    \/ TV_Default \/ TV_Nullptr \/ TV_FromT \/ TV_HasResult \/ TV_HasError
    \/ TV_GetResult \/ TV_ValueOr \/ TV_Move
    \/ TT_Default \/ TT_Nullptr \/ TT_SetResult \/ TT_SetError \/ TT_HasResult
    \/ TT_HasError \/ TT_GetResult \/ TT_ValueOr \/ TT_Error \/ TT_Move
    \/ RD_Default \/ RD_FromArgs \/ RD_FromT \/ RD_FromSignal \/ RD_Bool
    \/ RD_Deref \/ RD_Arrow \/ RD_Move \/ RD_ValueOr \/ RD_Error

Spec == Init /\ [][Next]_vars

(***************************************************************************)
(* Properties                                                              *)
(***************************************************************************)
\* what the instance reports (has_result() / operator bool) in the current state
ReportsSuccess ==
    CASE shape = "general" -> ResultTE_has_result(m_storage)
      [] shape = "homogeneous" -> ResultTT_has_result(TT)
      [] shape \in {"optional", "boolean"} -> ResultTV_has_result(shape, m_storage)
      [] OTHER -> ResultRD_bool(storage)

\* C1: general shape: after construction from (or reassignment to) a T value t
\* the instance has a result, has no error and get_result() = t; after
\* construction from an E value e it has no result, has an error and
\* error() = e, whatever it held before.
C1_LastValueDecides ==
    shape = "general" =>
        /\ last.op = "result(T)" =>
              /\ ResultTE_has_result(m_storage)
              /\ ~ResultTE_has_error(m_storage)
              /\ ResultTE_get_result(m_storage) = Ret(last.arg)
        /\ last.op = "result(E)" =>
              /\ ~ResultTE_has_result(m_storage)
              /\ ResultTE_has_error(m_storage)
              /\ ResultTE_error(m_storage) = Ret(last.arg)

C1_Witness ==
    /\ shape = "general" /\ last.op = "result(E)" /\ last.arg = MaxVal
    /\ ResultTE_error(m_storage) = Ret(MaxVal)

\* C2: default construction and construction from nullptr report failure in
\* every shape: general holds E{}, homogeneous holds T{} tagged as error,
\* optional is empty, boolean has its flag false, dispatch has signal
\* RD::failure (there a nullptr argument goes through result(Args&&...)).
C2_DefaultIsFailure ==
    last.op \in {"result()", "result(nullptr)", "result(args)"} =>
        /\ ~ReportsSuccess
        /\ shape = "general" =>
              ResultTE_has_error(m_storage) /\ ResultTE_error(m_storage) = Ret(DefaultE)
        /\ shape = "homogeneous" =>
              ResultTT_has_error(TT) /\ ResultTT_error(TT) = Ret(DefaultT)
        /\ shape = "optional" =>
              ResultTV_has_error(shape, m_storage) /\ m_storage = <<>>
        /\ shape = "boolean" =>
              ResultTV_has_error(shape, m_storage) /\ m_storage = FALSE
        /\ shape = "dispatch" => storage.signal = RD_failure

C2_Witness ==
    /\ shape = "homogeneous" /\ last.op = "result(nullptr)"
    /\ ResultTT_error(TT) = Ret(DefaultT)

\* C3: general and optional shape: move() on an instance that reports success
\* with value t returns t and leaves the instance equal to a
\* default-constructed one (general: error() = E{}; optional: empty).
C3_MoveResets ==
    [][(/\ shape \in {"general", "optional"}
        /\ last'.op = "move"
        /\ ReportsSuccess)
       => /\ last'.out = "ret"
          /\ last'.ret = (IF shape = "general" THEN m_storage.v ELSE m_storage[1])
          /\ ~ReportsSuccess'
          /\ shape = "general" =>
                /\ m_storage' = StorageTE_default
                /\ ResultTE_error(m_storage') = Ret(DefaultE)
          /\ shape = "optional" => m_storage' = <<>>]_vars

C3_Witness ==
    /\ shape = "optional" /\ last.op = "move" /\ last.out = "ret"
    /\ last.ret = MaxVal /\ m_storage = <<>>

\* the call made by this step reads the alternative the instance does not hold
WrongAccess ==
    \/ last'.op \in {"get_result", "move"} /\ ~ReportsSuccess
    \/ last'.op = "error" /\ ReportsSuccess

\* C4 (as claimed): in the general, homogeneous, optional and boolean shape,
\* get_result() or move() on a failure and error() on a success hit a failed
\* assertion.
C4_Original ==
    [][(shape \in {"general", "homogeneous", "optional", "boolean"} /\ WrongAccess)
       => last'.out = "assert"]_vars

\* C4 (amended): in the general, homogeneous and optional shape,
\* get_result() or move() on a failure and error() on a success hit a failed
\* assertion and leave the instance untouched; in the boolean shape
\* get_result() and move() on a failure return false normally.
C4_WrongAccess ==
    [][/\ (shape \in {"general", "homogeneous", "optional"} /\ WrongAccess)
          => last'.out = "assert" /\ UNCHANGED <<m_storage, m_error>>
       /\ (shape = "boolean" /\ WrongAccess)
          => last'.out = "ret" /\ last'.ret = FALSE /\ m_storage' = FALSE]_vars

C4_Witness ==
    shape = "general" /\ last.op = "error" /\ last.out = "assert" /\ m_storage.alt = "T"

\* C5: homogeneous shape: the last of any sequence of set_result / set_error
\* calls decides: after set_result(x) has_result() and get_result() = x, after
\* set_error(y) has_error() and error() = y.
C5_LastSetterDecides ==
    shape = "homogeneous" =>
        /\ last.op = "set_result" =>
              /\ ResultTT_has_result(TT) /\ ~ResultTT_has_error(TT)
              /\ ResultTT_get_result(TT) = Ret(last.arg)
        /\ last.op = "set_error" =>
              /\ ResultTT_has_error(TT) /\ ~ResultTT_has_result(TT)
              /\ ResultTT_error(TT) = Ret(last.arg)

C5_Witness ==
    /\ shape = "homogeneous" /\ last.op = "set_error" /\ last.arg = MaxVal
    /\ ResultTT_error(TT) = Ret(MaxVal)

\* C6: homogeneous shape: move() on an instance that reports success with value
\* x returns x and re-arms the instance: afterwards has_error() is true,
\* error() returns T{} and the storage holds a T.
C6_MoveReArms ==
    [][(shape = "homogeneous" /\ last'.op = "move" /\ ReportsSuccess)
       => /\ last'.out = "ret"
          /\ last'.ret = m_storage[1]
          /\ ResultTT_has_error(TT')
          /\ ResultTT_error(TT') = Ret(DefaultT)
          /\ StorageTV_has_value(m_storage')]_vars

\* C7: boolean shape: construction with true gives success with value true,
\* construction with false gives failure, and has_result() is the stored flag:
\* no state reports success while get_result() is false.
C7_BoolFlag ==
    shape = "boolean" =>
        /\ (last.op = "result(T)" /\ last.arg = TRUE) =>
              /\ ResultTV_has_result(shape, m_storage)
              /\ ResultTV_get_result(shape, m_storage) = Ret(TRUE)
        /\ (last.op = "result(T)" /\ last.arg = FALSE) =>
              /\ ~ResultTV_has_result(shape, m_storage)
              /\ ResultTV_has_error(shape, m_storage)
        /\ ResultTV_has_result(shape, m_storage) = m_storage
        /\ ~(/\ ResultTV_has_result(shape, m_storage)
             /\ ResultTV_get_result(shape, m_storage) = Ret(FALSE))

C7_Witness ==
    /\ shape = "boolean" /\ last.op = "result(T)" /\ last.arg = FALSE
    /\ ResultTV_has_error(shape, m_storage)

\* C8: every shape: value_or(fallback) returns normally, leaves the instance
\* unchanged and returns the held value on success, fallback on failure.
C8_ValueOr ==
    [][last'.op = "value_or"
       => /\ last'.out = "ret"
          /\ UNCHANGED <<m_storage, m_error, storage>>
          /\ ~ReportsSuccess => last'.ret = last'.arg
          /\ (ReportsSuccess /\ shape = "general") => last'.ret = m_storage.v
          /\ (ReportsSuccess /\ shape \in {"homogeneous", "optional"})
                => last'.ret = m_storage[1]
          /\ (ReportsSuccess /\ shape = "boolean") => last'.ret = m_storage
          /\ (ReportsSuccess /\ shape = "dispatch")
                => Len(storage.data) > 0 /\ last'.ret = storage.data[1]]_vars

\* C9: dispatch variant: operator*, operator-> and move() throw when the signal
\* is not RD::success and return the held value otherwise; a successful move()
\* sets the signal to RD::failure, so operator bool is false afterwards.
C9_ThrowingAccessors ==
    [][(shape = "dispatch" /\ last'.op \in {"operator*", "operator->", "move"})
       => IF storage.signal # RD_success
          THEN last'.out = "throw" /\ storage' = storage
          ELSE /\ last'.out = "ret"
               /\ Len(storage.data) > 0
               /\ last'.ret = storage.data[1]
               /\ last'.op = "move" =>
                     storage'.signal = RD_failure /\ ~ResultRD_bool(storage')]_vars

\* C10: dispatch variant: whenever operator bool is true, storage.data holds a
\* value.
C10_SuccessHoldsValue ==
    (shape = "dispatch" /\ ResultRD_bool(storage)) => Len(storage.data) > 0

====
